---------------------------- MODULE Spec2Model ----------------------------
(***************************************************************************)
(* A model of the containerd shim runtime (package shim): the Shim         *)
(* controller with its persisted state.json (New, Load, MarshalJSON,       *)
(* UnmarshalJSON), the Create path (startCommand, the create handshake,    *)
(* the exit watcher), the Start race between the runtime `start` command   *)
(* and the init supervisor's done channel, and the helpers getFifoPath,    *)
(* getRootIDs and hostIDFromMap.                                           *)
(***************************************************************************)
EXTENDS Integers, Sequences, FiniteSets, TLC

VARIABLES
    disk,    \* the filesystem: for every root path, the directory and its state.json
    shims,   \* the Shim values handed out by New and Load, by slot
    thr,     \* one API call (Create or Start) per caller: its position and locals
    procs,   \* the supervisor (*process) made by caller t's Create
    cmds,    \* the runtime `start` command of caller t's Start, its goroutine and errC
    pmu,     \* per Shim, the caller holding s.pmu (0: unlocked)
    ret,     \* the most recent return of New or Load
    fn       \* the most recent call of a helper function: its input and result

vars == <<disk, shims, thr, procs, cmds, pmu, ret, fn>>

-----------------------------------------------------------------------------
(* Bounds of the model.                                                    *)

MaxThreads == 2    \* concurrent callers, each making one Create or one Start
MaxStrLen == 1     \* length of the Go strings fed to the encoder
MaxArgs == 1       \* number of runtime arguments
MaxMaps == 2       \* entries of an ID mapping table
MaxNs == 2         \* namespaces declared by a spec

\* The ids are unsigned and wrap around.  The code's uint32 wraps at 2^32; the
\* model keeps the wrap-around at a width of 16 bits, which TLC's integers hold.
UintRange == 65536

\* The Shim values in play: the two a daemon and its successor hold, each
\* made by New or by Load.
Ctl == {1, 2}
Threads == 1..MaxThreads

-----------------------------------------------------------------------------
(* Go strings.  A string is a sequence of bytes that need not be valid     *)
(* UTF-8: "a" stands for an ASCII byte, "xFF" for a byte that is not valid *)
(* UTF-8, "uFFFD" for the encoding of the replacement rune U+FFFD.         *)

Chars == {"a", "xFF"}
GoStrings == UNION {[1..n -> Chars] : n \in 0..MaxStrLen}
ArgLists == UNION {[1..n -> GoStrings] : n \in 0..MaxArgs}
Timeouts == {0, 30}

\* A path is the sequence of its components; the empty path is "".
FilepathJoin(dir, elem) == Append(dir, elem)
Roots == {<<"run", "a">>, <<"run", "b">>}

\* encoding/json writes a string coerced to valid UTF-8: every invalid byte
\* becomes U+FFFD.  Reading a JSON string back yields its bytes unchanged.
JSONString(s) == [i \in DOMAIN s |-> IF s[i] = "xFF" THEN "uFFFD" ELSE s[i]]

-----------------------------------------------------------------------------
(* oci.New: the runtime invoker holds nothing but its configuration, the   *)
(* name and the arguments it was given, which Name() and Args() return.    *)

OciNew(opts) ==
    [err |-> FALSE, rt |-> [name |-> opts.Name, args |-> opts.Args]]

NoRuntime == [name |-> <<>>, args |-> <<>>]
NoProcesses == <<>>

\* The zero value of Shim: every field zero, the processes map nil.
ZeroShim ==
    [made |-> FALSE, root |-> <<>>, name |-> <<>>, timeout |-> 0,
     noPivotRoot |-> FALSE, runtime |-> NoRuntime, procNil |-> TRUE,
     processes |-> NoProcesses, bundle |-> <<>>, checkpoint |-> <<>>]

\* type state: the persisted record, by its JSON keys
MarshalJSON(s) ==
    [shim |-> JSONString(s.name),
     bundle |-> JSONString(s.bundle),
     runtime |-> JSONString(s.runtime.name),
     runtimeArgs |-> [i \in DOMAIN s.runtime.args |-> JSONString(s.runtime.args[i])],
     noPivotRoot |-> s.noPivotRoot,
     timeout |-> s.timeout]

\* UnmarshalJSON fills name, bundle, timeout, noPivotRoot and the runtime of
\* the receiver s and leaves its other fields alone.
UnmarshalJSON(s, b) ==
    LET r == OciNew([Name |-> b.runtime, Args |-> b.runtimeArgs])
        s1 == [s EXCEPT !.name = b.shim, !.bundle = b.bundle,
                        !.timeout = b.timeout, !.noPivotRoot = b.noPivotRoot]
    IN  IF r.err THEN [err |-> TRUE, s |-> s1]
        ELSE [err |-> FALSE, s |-> [s1 EXCEPT !.runtime = r.rt]]

-----------------------------------------------------------------------------
(* getFifoPath.  A value v of type interface{} is either an *os.File, with *)
(* its name and the kind of file behind it, or a value of another type.    *)

FileBackings == {"fifo", "regular", "anonpipe"}
FileNames == {<<>>, <<"a">>}
Handles ==
    [isFile : {TRUE}, name : FileNames, backing : FileBackings]
      \cup [isFile : {FALSE}, name : {<<>>}, backing : {"none"}]

\* the test of the name left out
getFifoPathNoNameCheck(v) ==
    IF ~v.isFile THEN [path |-> <<>>, err |-> "ErrNotFifo"]
    ELSE [path |-> v.name, err |-> "nil"]

getFifoPath(v) ==
    IF ~v.isFile THEN [path |-> <<>>, err |-> "ErrNotFifo"]
    ELSE IF v.name = <<>> THEN [path |-> <<>>, err |-> "ErrNotFifo"]
         ELSE [path |-> v.name, err |-> "nil"]

-----------------------------------------------------------------------------
(* hostIDFromMap and getRootIDs, in the uint32 arithmetic of the code.     *)

RECURSIVE hostIDFromMap(_, _)
hostIDFromMap(id, mp) ==
    IF mp = <<>> THEN 0
    ELSE LET m == Head(mp)
             last == (m.ContainerID + m.Size + UintRange - 1) % UintRange
         IN  IF id >= m.ContainerID /\ id <= last
             THEN (m.HostID + ((id - m.ContainerID + UintRange) % UintRange)) % UintRange
             ELSE hostIDFromMap(id, Tail(mp))

RECURSIVE hasUserns(_)
hasUserns(namespaces) ==
    IF namespaces = <<>> THEN FALSE
    ELSE IF Head(namespaces) = "user" THEN TRUE
         ELSE hasUserns(Tail(namespaces))

\* the gid resolved through the UID table
getRootIDsGidFromUidTable(s) ==
    IF s.isNil THEN <<0, 0>>
    ELSE IF ~hasUserns(s.Namespaces) THEN <<0, 0>>
         ELSE <<hostIDFromMap(0, s.UIDMappings), hostIDFromMap(0, s.UIDMappings)>>

getRootIDs(s) ==
    IF s.isNil THEN <<0, 0>>
    ELSE IF ~hasUserns(s.Namespaces) THEN <<0, 0>>
         ELSE <<hostIDFromMap(0, s.UIDMappings), hostIDFromMap(0, s.GIDMappings)>>

NsTypes == {"pid", "user"}
NsLists == UNION {[1..n -> NsTypes] : n \in 0..MaxNs}
\* the mapping entries of the specs handed to getRootIDs
RootMappings ==
    {[ContainerID |-> 0, HostID |-> 1000, Size |-> 1],
     [ContainerID |-> 1, HostID |-> 1000, Size |-> 1],
     [ContainerID |-> 0, HostID |-> 2000, Size |-> 1],
     [ContainerID |-> 0, HostID |-> 3000, Size |-> 0]}
RootTables == UNION {[1..n -> RootMappings] : n \in 0..MaxMaps}
OciSpecs ==
    [isNil : {FALSE}, Namespaces : NsLists, UIDMappings : RootTables,
     GIDMappings : RootTables]
      \cup [isNil : {TRUE}, Namespaces : {<<>>}, UIDMappings : {<<>>},
            GIDMappings : {<<>>}]

\* the mapping entries and ids handed to hostIDFromMap directly
IDMappings ==
    [ContainerID : {0, 1}, HostID : {1000, 2000}, Size : {0, 1, 10}]
      \cup {[ContainerID |-> UintRange - 1, HostID |-> 7, Size |-> 2]}
MapTables == UNION {[1..n -> IDMappings] : n \in 0..MaxMaps}
ContainerIDs == {0, 1, 5, 20, UintRange - 1}

-----------------------------------------------------------------------------
(* The state of the model.                                                 *)

NoDisk == [st |-> "nodir", rec |-> MarshalJSON(ZeroShim)]

\* A caller that has made no call yet.
IdleThread ==
    [op |-> "none", pc |-> "idle", c |-> 0, p |-> 0, res |-> "none",
     timer |-> FALSE]

\* The supervisor slot of a caller whose Create has not made one.
NoProcess ==
    [made |-> FALSE, root |-> <<>>, noPivotRoot |-> FALSE, os |-> "none",
     created |-> FALSE, closes |-> 0, success |-> FALSE, watcher |-> "none",
     watchers |-> 0]

\* The start command slot of a caller whose Start has not built one.
NoCmd ==
    [made |-> FALSE, Process |-> FALSE, os |-> "none", finished |-> FALSE,
     reaped |-> FALSE, g |-> "none", errC |-> <<>>]

NoCall == [op |-> "none", arg |-> <<>>, res |-> <<>>]
NoReturn == [op |-> "none", c |-> 0, root |-> <<>>, err |-> "none"]

Init ==
    /\ disk = [r \in Roots |-> NoDisk]
    /\ shims = [c \in Ctl |-> ZeroShim]
    /\ thr = [t \in Threads |-> IdleThread]
    /\ procs = [t \in Threads |-> NoProcess]
    /\ cmds = [t \in Threads |-> NoCmd]
    /\ pmu = [c \in Ctl |-> 0]
    /\ ret = NoReturn
    /\ fn = NoCall

-----------------------------------------------------------------------------
(* Calls of the helper functions: the input is drawn, the function applied *)
(* and the call recorded in fn.  A behaviour makes one call.               *)

ShimConfigs ==
    {[ZeroShim EXCEPT !.name = n, !.bundle = b,
                      !.runtime = [name |-> r, args |-> a],
                      !.noPivotRoot = p, !.timeout = d] :
        n \in GoStrings, b \in GoStrings, r \in GoStrings, a \in ArgLists,
        p \in BOOLEAN, d \in Timeouts}

\* json.Marshal(s), json.Unmarshal of the bytes into a fresh Shim, and
\* json.Marshal of the Shim read back
RoundTrip(s) ==
    LET enc == MarshalJSON(s)
        dec == UnmarshalJSON(ZeroShim, enc)
    IN  [enc |-> enc, err |-> dec.err, dec |-> dec.s, enc2 |-> MarshalJSON(dec.s)]

CallRoundTrip ==
    /\ fn.op = "none"
    /\ \E s \in ShimConfigs :
          fn' = [op |-> "RoundTrip", arg |-> s, res |-> RoundTrip(s)]
    /\ UNCHANGED <<disk, shims, thr, procs, cmds, pmu, ret>>

CallGetFifoPath ==
    /\ fn.op = "none"
    /\ \E v \in Handles :
          fn' = [op |-> "getFifoPath", arg |-> v, res |-> getFifoPath(v)]
    /\ UNCHANGED <<disk, shims, thr, procs, cmds, pmu, ret>>

CallGetRootIDs ==
    /\ fn.op = "none"
    /\ \E s \in OciSpecs :
          fn' = [op |-> "getRootIDs", arg |-> s, res |-> getRootIDs(s)]
    /\ UNCHANGED <<disk, shims, thr, procs, cmds, pmu, ret>>

CallHostIDFromMap ==
    /\ fn.op = "none"
    /\ \E id \in ContainerIDs, mp \in MapTables :
          fn' = [op |-> "hostIDFromMap", arg |-> [id |-> id, mp |-> mp],
                 res |-> hostIDFromMap(id, mp)]
    /\ UNCHANGED <<disk, shims, thr, procs, cmds, pmu, ret>>

NextFn ==
    \/ CallRoundTrip
    \/ CallGetFifoPath
    \/ CallGetRootIDs
    \/ CallHostIDFromMap

SpecFn == Init /\ [][NextFn]_vars

-----------------------------------------------------------------------------
(* New and Load.                                                           *)

\* the Shim value New builds: the fields it sets, the rest zero
NewShim(opts) ==
    [ZeroShim EXCEPT !.made = TRUE, !.root = opts.Root, !.name = opts.Name,
                     !.timeout = opts.Timeout,
                     !.runtime = OciNew([Name |-> opts.RuntimeName,
                                         Args |-> opts.RuntimeArgs]).rt,
                     !.procNil = FALSE, !.processes = NoProcesses]

\* c is the next Shim value to hand out; a call that fails hands out none
FreeSlot(c) == ~shims[c].made /\ \A d \in Ctl : d < c => shims[d].made

\* os.MkdirAll in place of os.Mkdir: an existing directory is no error
MkdirAllFails(root) == FALSE

\* os.Mkdir(opts.Root, 0711) fails when the directory exists (line 49)
MkdirFails(root) == disk[root].st # "nodir"

\* io is what the filesystem answers: "ok", "createFails" (os.Create fails)
\* or "encodeFails" (the write of the encoder fails part-way)
New(c, opts, io) ==
    /\ IF MkdirFails(opts.Root)
       THEN \* os.Mkdir: the directory exists
            /\ ret' = [op |-> "New", c |-> 0, root |-> opts.Root, err |-> "EEXIST"]
            /\ UNCHANGED <<disk, shims>>
       ELSE IF OciNew([Name |-> opts.RuntimeName, Args |-> opts.RuntimeArgs]).err
       THEN /\ disk' = [disk EXCEPT ![opts.Root].st = "dir"]
            /\ ret' = [op |-> "New", c |-> 0, root |-> opts.Root, err |-> "ociError"]
            /\ UNCHANGED shims
       ELSE IF io = "createFails"
       THEN /\ disk' = [disk EXCEPT ![opts.Root].st = "dir"]
            /\ ret' = [op |-> "New", c |-> 0, root |-> opts.Root, err |-> "createError"]
            /\ UNCHANGED shims
       ELSE IF io = "encodeFails"
       THEN \* New returns the error of Encode: the caller has no Shim to use
            /\ disk' = [disk EXCEPT ![opts.Root].st = "partial"]
            /\ ret' = [op |-> "New", c |-> 0, root |-> opts.Root, err |-> "encodeError"]
            /\ UNCHANGED shims
       ELSE /\ FreeSlot(c)
            /\ disk' = [disk EXCEPT ![opts.Root] =
                           [st |-> "full", rec |-> MarshalJSON(NewShim(opts))]]
            /\ shims' = [shims EXCEPT ![c] = NewShim(opts)]
            /\ ret' = [op |-> "New", c |-> c, root |-> opts.Root, err |-> "nil"]
    /\ UNCHANGED <<thr, procs, cmds, pmu, fn>>

\* Load decodes state.json into a zero Shim: root and processes stay zero.
Load(c, root) ==
    /\ IF disk[root].st \notin {"partial", "full"}
       THEN \* os.Open: no state.json
            /\ ret' = [op |-> "Load", c |-> 0, root |-> root, err |-> "ENOENT"]
            /\ UNCHANGED shims
       ELSE IF disk[root].st = "partial" \/ UnmarshalJSON(ZeroShim, disk[root].rec).err
       THEN /\ ret' = [op |-> "Load", c |-> 0, root |-> root, err |-> "decodeError"]
            /\ UNCHANGED shims
       ELSE /\ FreeSlot(c)
            /\ shims' = [shims EXCEPT ![c] =
                  [UnmarshalJSON(ZeroShim, disk[root].rec).s EXCEPT !.made = TRUE]]
            /\ ret' = [op |-> "Load", c |-> c, root |-> root, err |-> "nil"]
    /\ UNCHANGED <<disk, thr, procs, cmds, pmu, fn>>

IOAnswers == {"ok", "createFails", "encodeFails"}

\* the options given to New: names with and without a byte that is not
\* valid UTF-8, no argument and one argument, both flags, two timeouts
OptsStore ==
    [Name : {<<"a">>, <<"xFF">>}, RuntimeName : {<<"a">>, <<"a", "xFF">>},
     RuntimeArgs : {<<>>, <<(<<"a">>)>>}, NoPivotRoot : BOOLEAN, Root : Roots,
     Timeout : Timeouts]

NextStore ==
    \/ \E c \in Ctl, opts \in OptsStore, io \in IOAnswers : New(c, opts, io)
    \/ \E c \in Ctl, root \in Roots : Load(c, root)

SpecStore == Init /\ [][NextStore]_vars

-----------------------------------------------------------------------------
(* Create: startCommand, the create handshake, the registration.           *)

\* newProcess: the supervisor of a process not yet launched, its done channel
\* open; ok is whether its control files could be set up.
newProcess(root, noPivotRoot, ok) ==
    [err |-> ~ok,
     p |-> [NoProcess EXCEPT !.made = TRUE, !.root = root,
                             !.noPivotRoot = noPivotRoot]]

\* waitForCreate: the results the wait can return in the current state (none:
\* it blocks).  nil once the create confirmation is there, the timeout error
\* once the timer has fired, the early-exit error once the process has exited
\* without confirming.
waitForCreate(p, timer) ==
    (IF p.created THEN {"nil"} ELSE {})
      \cup (IF timer THEN {"ErrTimeout"} ELSE {})
      \cup (IF p.os \in {"exitedOk", "exitedFail"} /\ ~p.created
            THEN {"ErrEarlyExit"} ELSE {})

\* The callers make their calls in the order of their numbers (they are
\* interchangeable otherwise); the calls then run concurrently.
MayCall(t) ==
    /\ thr[t].pc = "idle"
    /\ \A u \in Threads : u < t => thr[u].pc # "idle"

\* the call returns; a timer of its waitForCreate is dropped with it
Return(t, res) ==
    [thr EXCEPT ![t].pc = "returned", ![t].res = res, ![t].timer = FALSE]

\* Create up to startCommand's call of newProcess (lines 159-169, 229-232)
CreateCall(t, c, ok) ==
    /\ MayCall(t)
    /\ shims[c].made
    /\ LET np == newProcess(FilepathJoin(shims[c].root, "init"),
                            shims[c].noPivotRoot, ok)
       IN  IF np.err
           THEN /\ thr' = [thr EXCEPT ![t] = [IdleThread EXCEPT !.op = "Create",
                               !.c = c, !.pc = "returned", !.res = "newProcessError"]]
                /\ UNCHANGED procs
           ELSE /\ thr' = [thr EXCEPT ![t] = [IdleThread EXCEPT !.op = "Create",
                               !.c = c, !.pc = "cmdStart"]]
                /\ procs' = [procs EXCEPT ![t] = np.p]
    /\ UNCHANGED <<disk, shims, cmds, pmu, ret, fn>>

\* m[k] = p of a Go map, for the key "init"
SetInit(m, p) == [k \in DOMAIN m \cup {"init"} |-> IF k = "init" THEN p ELSE m[k]]

LaunchAnswers == {"ok", "notFound", "fails"}

\* the `defer` of the watcher placed before cmd.Start(): a failed launch
\* starts the watcher too
CmdStartDeferFirst(t, launch) ==
    /\ thr[t].pc = "cmdStart"
    /\ IF launch = "ok"
       THEN /\ procs' = [procs EXCEPT ![t].os = "running"]
            /\ thr' = [thr EXCEPT ![t].pc = "waitForCreate"]
       ELSE /\ procs' = [procs EXCEPT ![t].closes = @ + 1,
                                      ![t].watcher = "running", ![t].watchers = @ + 1]
            /\ thr' = [thr EXCEPT ![t].pc = "returned",
                          ![t].res = IF launch = "notFound" THEN "notInstalled"
                                     ELSE "launchError"]
    /\ UNCHANGED <<disk, shims, cmds, pmu, ret, fn>>

\* the supervisor put into the registry as soon as the launch has succeeded,
\* before the create handshake
CmdStartRegisters(t, launch) ==
    /\ thr[t].pc = "cmdStart"
    /\ IF launch = "ok"
       THEN /\ procs' = [procs EXCEPT ![t].os = "running"]
            /\ thr' = [thr EXCEPT ![t].pc = "waitForCreate"]
            /\ shims' = IF shims[thr[t].c].procNil THEN shims
                        ELSE [shims EXCEPT ![thr[t].c].processes = SetInit(@, t)]
       ELSE /\ procs' = [procs EXCEPT ![t].closes = @ + 1]
            /\ thr' = Return(t, IF launch = "notFound" THEN "notInstalled"
                                ELSE "launchError")
            /\ UNCHANGED shims
    /\ UNCHANGED <<disk, cmds, pmu, ret, fn>>

\* cmd.Start() of the shim process (lines 233-239)
CmdStart(t, launch) ==
    /\ thr[t].pc = "cmdStart"
    /\ IF launch = "ok"
       THEN /\ procs' = [procs EXCEPT ![t].os = "running"]
            /\ thr' = [thr EXCEPT ![t].pc = "waitForCreate"]
       ELSE /\ procs' = [procs EXCEPT ![t].closes = @ + 1]
            /\ thr' = Return(t, IF launch = "notFound" THEN "notInstalled"
                                ELSE "launchError")
    /\ UNCHANGED <<disk, shims, cmds, pmu, ret, fn>>

\* the timer of waitForCreate's timeout fires
TimerFire(t) ==
    /\ thr[t].pc = "waitForCreate"
    /\ ~thr[t].timer
    /\ thr' = [thr EXCEPT ![t].timer = TRUE]
    /\ UNCHANGED <<disk, shims, procs, cmds, pmu, ret, fn>>

\* startCommand killing the process when waitForCreate returns an error
StartCommandReturnKills(t) ==
    /\ thr[t].pc = "waitForCreate"
    /\ \E r \in waitForCreate(procs[t], thr[t].timer) :
          /\ thr' = IF r = "nil"
                    THEN [thr EXCEPT ![t].pc = "lock", ![t].timer = FALSE]
                    ELSE [thr EXCEPT ![t].pc = "returned", ![t].res = r,
                                     ![t].timer = FALSE]
          /\ procs' = [procs EXCEPT ![t].watcher = "running", ![t].watchers = @ + 1,
                          ![t].os = IF r = "nil" \/ @ # "running" THEN @ ELSE "killed"]
    /\ UNCHANGED <<disk, shims, cmds, pmu, ret, fn>>

\* waitForCreate returns; the deferred `go p.checkExited()` runs as
\* startCommand returns; Create returns the error, or goes on to register
\* (lines 241-247, 170-173)
StartCommandReturn(t) ==
    /\ thr[t].pc = "waitForCreate"
    /\ \E r \in waitForCreate(procs[t], thr[t].timer) :
          thr' = IF r = "nil" THEN [thr EXCEPT ![t].pc = "lock", ![t].timer = FALSE]
                 ELSE Return(t, r)
    /\ procs' = [procs EXCEPT ![t].watcher = "running", ![t].watchers = @ + 1]
    /\ UNCHANGED <<disk, shims, cmds, pmu, ret, fn>>

\* s.pmu.Lock() (line 174)
CreateLock(t) ==
    /\ thr[t].pc = "lock"
    /\ pmu[thr[t].c] = 0
    /\ pmu' = [pmu EXCEPT ![thr[t].c] = t]
    /\ thr' = [thr EXCEPT ![t].pc = "register"]
    /\ UNCHANGED <<disk, shims, procs, cmds, ret, fn>>

\* s.processes["init"] = p; s.pmu.Unlock(); return p, nil (lines 175-178).
\* The assignment to an entry of a nil map panics, the lock still held.
CreateRegister(t) ==
    /\ thr[t].pc = "register"
    /\ IF shims[thr[t].c].procNil
       THEN /\ thr' = Return(t, "panic")
            /\ UNCHANGED <<shims, pmu>>
       ELSE /\ shims' = [shims EXCEPT ![thr[t].c].processes = SetInit(@, t)]
            /\ pmu' = [pmu EXCEPT ![thr[t].c] = 0]
            /\ thr' = Return(t, "nil")
    /\ UNCHANGED <<disk, procs, cmds, ret, fn>>

-----------------------------------------------------------------------------
(* The shim process and its exit watcher.                                  *)

\* the launched process confirms the create (its pid file becomes readable)
ProcConfirm(t) ==
    /\ procs[t].os = "running"
    /\ ~procs[t].created
    /\ procs' = [procs EXCEPT ![t].created = TRUE]
    /\ UNCHANGED <<disk, shims, thr, cmds, pmu, ret, fn>>

\* the process exits on its own: normally, which it can only after the
\* create, or by a crash
ProcExit(t, normal) ==
    /\ procs[t].os = "running"
    /\ normal => procs[t].created
    /\ procs' = [procs EXCEPT ![t].os = IF normal THEN "exitedOk" ELSE "exitedFail"]
    /\ UNCHANGED <<disk, shims, thr, cmds, pmu, ret, fn>>

\* checkExited: the watcher sees the exit, records the outcome and fires done
checkExited(t) ==
    /\ procs[t].watcher = "running"
    /\ procs[t].os \in {"exitedOk", "exitedFail", "killed"}
    /\ procs' = [procs EXCEPT ![t].success = (procs[t].os = "exitedOk"),
                              ![t].closes = @ + 1, ![t].watcher = "finished"]
    /\ UNCHANGED <<disk, shims, thr, cmds, pmu, ret, fn>>

-----------------------------------------------------------------------------
(* Start: the lookup of the init supervisor, the goroutine running the     *)
(* runtime `start` command, and the select over errC and p.done.           *)

\* s.pmu.Lock() of getContainerInit (line 219)
StartCall(t, c) ==
    /\ MayCall(t)
    /\ shims[c].made
    /\ pmu[c] = 0
    /\ pmu' = [pmu EXCEPT ![c] = t]
    /\ thr' = [thr EXCEPT ![t] = [IdleThread EXCEPT !.op = "Start", !.c = c,
                                                    !.pc = "getInit"]]
    /\ UNCHANGED <<disk, shims, procs, cmds, ret, fn>>

\* the lookup without its unlock: the lock is kept into the select
getContainerInitKeepsLock(t) ==
    /\ thr[t].pc = "getInit"
    /\ IF "init" \notin DOMAIN shims[thr[t].c].processes
       THEN /\ thr' = Return(t, "errInitProcessNotExist")
            /\ pmu' = [pmu EXCEPT ![thr[t].c] = 0]
            /\ UNCHANGED cmds
       ELSE /\ thr' = [thr EXCEPT ![t].pc = "select",
                                  ![t].p = shims[thr[t].c].processes["init"]]
            /\ cmds' = [cmds EXCEPT ![t] = [NoCmd EXCEPT !.made = TRUE,
                                                         !.g = "start"]]
            /\ UNCHANGED pmu
    /\ UNCHANGED <<disk, shims, procs, ret, fn>>

\* the start command built and run before the lookup is tested
getContainerInitAfterCommand(t) ==
    /\ thr[t].pc = "getInit"
    /\ pmu' = [pmu EXCEPT ![thr[t].c] = 0]
    /\ cmds' = [cmds EXCEPT ![t] = [NoCmd EXCEPT !.made = TRUE, !.g = "start"]]
    /\ thr' = IF "init" \notin DOMAIN shims[thr[t].c].processes
              THEN [thr EXCEPT ![t].pc = "returned",
                               ![t].res = "errInitProcessNotExist"]
              ELSE [thr EXCEPT ![t].pc = "select",
                               ![t].p = shims[thr[t].c].processes["init"]]
    /\ UNCHANGED <<disk, shims, procs, ret, fn>>

\* the lookup and the unlock; then errC, cmd and the `go` statement
\* (lines 220-225, 182-196).  A nil map reads as an empty one.
getContainerInit(t) ==
    /\ thr[t].pc = "getInit"
    /\ pmu' = [pmu EXCEPT ![thr[t].c] = 0]
    /\ IF "init" \notin DOMAIN shims[thr[t].c].processes
       THEN /\ thr' = Return(t, "errInitProcessNotExist")
            /\ UNCHANGED cmds
       ELSE /\ thr' = [thr EXCEPT ![t].pc = "select",
                                  ![t].p = shims[thr[t].c].processes["init"]]
            /\ cmds' = [cmds EXCEPT ![t] = [NoCmd EXCEPT !.made = TRUE,
                                                         !.g = "start"]]
    /\ UNCHANGED <<disk, shims, procs, ret, fn>>

\* goroutine, cmd.CombinedOutput(): cmd.Start() launches the subprocess, or fails
GoCmdStart(t, ok) ==
    /\ cmds[t].g = "start"
    /\ cmds' = IF ok THEN [cmds EXCEPT ![t].os = "running", ![t].g = "setProcess"]
               ELSE [cmds EXCEPT ![t].g = "sendErr"]
    /\ UNCHANGED <<disk, shims, thr, procs, pmu, ret, fn>>

\* goroutine, cmd.Start(): c.Process is assigned once os.StartProcess has returned
GoSetProcess(t) ==
    /\ cmds[t].g = "setProcess"
    /\ cmds' = [cmds EXCEPT ![t].Process = TRUE, ![t].g = "wait"]
    /\ UNCHANGED <<disk, shims, thr, procs, pmu, ret, fn>>

\* goroutine, cmd.Wait(): "Wait was already called" when the caller's Wait came first
GoWait(t) ==
    /\ cmds[t].g = "wait"
    /\ cmds' = IF cmds[t].finished THEN [cmds EXCEPT ![t].g = "sendErr"]
               ELSE [cmds EXCEPT ![t].finished = TRUE, ![t].g = "waiting"]
    /\ UNCHANGED <<disk, shims, thr, procs, pmu, ret, fn>>

\* goroutine, cmd.Wait() returns once the subprocess has ended, and reaps it
GoWaitReturn(t) ==
    /\ cmds[t].g = "waiting"
    /\ cmds[t].os \in {"exitedOk", "exitedFail", "killed"}
    /\ cmds' = [cmds EXCEPT ![t].reaped = TRUE,
                   ![t].g = IF cmds[t].os = "exitedOk" THEN "sendNil" ELSE "sendErr"]
    /\ UNCHANGED <<disk, shims, thr, procs, pmu, ret, fn>>

\* goroutine, errC <- fmt.Errorf(...) (line 193): blocks while the slot is taken
GoSendErr(t) ==
    /\ cmds[t].g = "sendErr"
    /\ Len(cmds[t].errC) < 1
    /\ cmds' = [cmds EXCEPT ![t].errC = Append(@, "err"), ![t].g = "sendNil"]
    /\ UNCHANGED <<disk, shims, thr, procs, pmu, ret, fn>>

\* goroutine, errC <- nil (line 195), after the error too
GoSendNil(t) ==
    /\ cmds[t].g = "sendNil"
    /\ Len(cmds[t].errC) < 1
    /\ cmds' = [cmds EXCEPT ![t].errC = Append(@, "nil"), ![t].g = "done"]
    /\ UNCHANGED <<disk, shims, thr, procs, pmu, ret, fn>>

\* the runtime `start` subprocess ends on its own, with or without an error
CmdExit(t, ok) ==
    /\ cmds[t].os = "running"
    /\ cmds' = [cmds EXCEPT ![t].os = IF ok THEN "exitedOk" ELSE "exitedFail"]
    /\ UNCHANGED <<disk, shims, thr, procs, pmu, ret, fn>>

\* the test of the received error inverted
ErrCResultInverted(v) == IF v = "err" THEN "nil" ELSE "RuntimeCommandError"

\* the result Start returns for a value received from errC (lines 199-201, 211-215)
ErrCResult(v) == IF v = "err" THEN "RuntimeCommandError" ELSE "nil"

\* select, case err := <-errC (lines 198-201, 215)
SelectErrC(t) ==
    /\ thr[t].pc = "select"
    /\ cmds[t].errC # <<>>
    /\ cmds' = [cmds EXCEPT ![t].errC = Tail(@)]
    /\ thr' = Return(t, ErrCResult(Head(cmds[t].errC)))
    /\ UNCHANGED <<disk, shims, procs, pmu, ret, fn>>

\* the done case taking the kill path whatever p.success holds
SelectDoneIgnoresSuccess(t) ==
    /\ thr[t].pc = "select"
    /\ procs[thr[t].p].closes > 0
    /\ thr' = [thr EXCEPT ![t].pc = "cmdWait"]
    /\ cmds' = IF cmds[t].Process /\ cmds[t].os = "running"
               THEN [cmds EXCEPT ![t].os = "killed"] ELSE cmds
    /\ UNCHANGED <<disk, shims, procs, pmu, ret, fn>>

\* select, case <-p.done: with p.success, on to the receive from errC;
\* without, if cmd.Process != nil { cmd.Process.Kill() } (lines 202-206)
SelectDone(t) ==
    /\ thr[t].pc = "select"
    /\ procs[thr[t].p].closes > 0
    /\ IF procs[thr[t].p].success
       THEN /\ thr' = [thr EXCEPT ![t].pc = "recv"]
            /\ UNCHANGED cmds
       ELSE /\ thr' = [thr EXCEPT ![t].pc = "cmdWait"]
            /\ cmds' = IF cmds[t].Process /\ cmds[t].os = "running"
                       THEN [cmds EXCEPT ![t].os = "killed"] ELSE cmds
    /\ UNCHANGED <<disk, shims, procs, pmu, ret, fn>>

\* cmd.Wait() of the caller (line 207): it returns at once, with an error that
\* is dropped, when the command is not started or Wait was already called
CmdWait(t) ==
    /\ thr[t].pc = "cmdWait"
    /\ IF ~cmds[t].Process \/ cmds[t].finished
       THEN /\ thr' = Return(t, "ErrShimExited")
            /\ UNCHANGED cmds
       ELSE /\ thr' = [thr EXCEPT ![t].pc = "cmdWaiting"]
            /\ cmds' = [cmds EXCEPT ![t].finished = TRUE]
    /\ UNCHANGED <<disk, shims, procs, pmu, ret, fn>>

\* Start dropping the dead init from the registry as it returns ErrShimExited
CmdWaitReturnUnregisters(t) ==
    /\ thr[t].pc = "cmdWaiting"
    /\ cmds[t].os \in {"exitedOk", "exitedFail", "killed"}
    /\ cmds' = [cmds EXCEPT ![t].reaped = TRUE]
    /\ thr' = [thr EXCEPT ![t].pc = "returned", ![t].res = "ErrShimExited"]
    /\ shims' = [shims EXCEPT ![thr[t].c].processes = NoProcesses]
    /\ UNCHANGED <<disk, procs, pmu, ret, fn>>

\* the caller's cmd.Wait() returns once the subprocess has ended; return
\* ErrShimExited (lines 207-208)
CmdWaitReturn(t) ==
    /\ thr[t].pc = "cmdWaiting"
    /\ cmds[t].os \in {"exitedOk", "exitedFail", "killed"}
    /\ cmds' = [cmds EXCEPT ![t].reaped = TRUE]
    /\ thr' = Return(t, "ErrShimExited")
    /\ UNCHANGED <<disk, shims, procs, pmu, ret, fn>>

\* err := <-errC after a done with success (lines 210-215)
RecvErrC(t) ==
    /\ thr[t].pc = "recv"
    /\ cmds[t].errC # <<>>
    /\ cmds' = [cmds EXCEPT ![t].errC = Tail(@)]
    /\ thr' = Return(t, ErrCResult(Head(cmds[t].errC)))
    /\ UNCHANGED <<disk, shims, procs, pmu, ret, fn>>

-----------------------------------------------------------------------------
(* The specification of the controller: New and Load hand out Shims, the   *)
(* callers run Create and Start on them concurrently.  Here New is called  *)
(* on a fresh root and Load on a written one; SpecStore has the calls that *)
(* fail.                                                                   *)

OptsMain ==
    [Name : {<<"a">>}, RuntimeName : {<<"a">>}, RuntimeArgs : {<<>>},
     NoPivotRoot : BOOLEAN, Root : {<<"run", "a">>}, Timeout : {30}]

Next ==
    \/ \E c \in Ctl, opts \in OptsMain :
          disk[opts.Root].st = "nodir" /\ New(c, opts, "ok")
    \/ \E c \in Ctl :
          disk[<<"run", "a">>].st = "full" /\ Load(c, <<"run", "a">>)
    \/ \E t \in Threads, c \in Ctl, ok \in BOOLEAN : CreateCall(t, c, ok)
    \/ \E t \in Threads, launch \in LaunchAnswers : CmdStart(t, launch)
    \/ \E t \in Threads : TimerFire(t)
    \/ \E t \in Threads : StartCommandReturn(t)
    \/ \E t \in Threads : CreateLock(t)
    \/ \E t \in Threads : CreateRegister(t)
    \/ \E t \in Threads : ProcConfirm(t)
    \/ \E t \in Threads, normal \in BOOLEAN : ProcExit(t, normal)
    \/ \E t \in Threads : checkExited(t)
    \/ \E t \in Threads, c \in Ctl : StartCall(t, c)
    \/ \E t \in Threads : getContainerInit(t)
    \/ \E t \in Threads, ok \in BOOLEAN : GoCmdStart(t, ok)
    \/ \E t \in Threads : GoSetProcess(t)
    \/ \E t \in Threads : GoWait(t)
    \/ \E t \in Threads : GoWaitReturn(t)
    \/ \E t \in Threads : GoSendErr(t)
    \/ \E t \in Threads : GoSendNil(t)
    \/ \E t \in Threads, ok \in BOOLEAN : CmdExit(t, ok)
    \/ \E t \in Threads : SelectErrC(t)
    \/ \E t \in Threads : SelectDone(t)
    \/ \E t \in Threads : CmdWait(t)
    \/ \E t \in Threads : CmdWaitReturn(t)
    \/ \E t \in Threads : RecvErrC(t)

Spec == Init /\ [][Next]_vars

-----------------------------------------------------------------------------
(* The same controller under the scheduling the Go runtime gives: a        *)
(* goroutine that can take a step eventually takes it, and a timer that    *)
(* was set eventually fires.  The processes (the shim, the runtime `start` *)
(* command) and the callers' decisions to call are under no such rule.     *)

Fairness ==
    \A t \in Threads :
        /\ WF_vars(TimerFire(t))
        /\ WF_vars(StartCommandReturn(t))
        /\ WF_vars(CreateLock(t))
        /\ WF_vars(CreateRegister(t))
        /\ WF_vars(checkExited(t))
        /\ WF_vars(getContainerInit(t))
        /\ WF_vars(GoSetProcess(t))
        /\ WF_vars(GoWait(t))
        /\ WF_vars(GoWaitReturn(t))
        /\ WF_vars(GoSendErr(t))
        /\ WF_vars(GoSendNil(t))
        /\ WF_vars(SelectErrC(t) \/ SelectDone(t))
        /\ WF_vars(CmdWait(t))
        /\ WF_vars(CmdWaitReturn(t))
        /\ WF_vars(RecvErrC(t))

FairSpec == Init /\ [][Next]_vars /\ Fairness

\* The controller with two callers that make Create calls only, under the
\* same scheduling.
CreateCallers == {1, 2}

NextCreate ==
    \/ \E c \in Ctl, opts \in OptsMain :
          disk[opts.Root].st = "nodir" /\ New(c, opts, "ok")
    \/ \E c \in Ctl :
          disk[<<"run", "a">>].st = "full" /\ Load(c, <<"run", "a">>)
    \/ \E t \in CreateCallers, c \in Ctl, ok \in BOOLEAN : CreateCall(t, c, ok)
    \/ \E t \in CreateCallers, launch \in LaunchAnswers : CmdStart(t, launch)
    \/ \E t \in CreateCallers : TimerFire(t)
    \/ \E t \in CreateCallers : StartCommandReturn(t)
    \/ \E t \in CreateCallers : CreateLock(t)
    \/ \E t \in CreateCallers : CreateRegister(t)
    \/ \E t \in CreateCallers : ProcConfirm(t)
    \/ \E t \in CreateCallers, normal \in BOOLEAN : ProcExit(t, normal)
    \/ \E t \in CreateCallers : checkExited(t)

FairnessCreate ==
    \A t \in CreateCallers :
        /\ WF_vars(TimerFire(t))
        /\ WF_vars(StartCommandReturn(t))
        /\ WF_vars(CreateLock(t))
        /\ WF_vars(CreateRegister(t))
        /\ WF_vars(checkExited(t))

FairCreateSpec == Init /\ [][NextCreate]_vars /\ FairnessCreate

\* The controller with two callers that make Create and Start calls, under
\* the same scheduling.
StartCallers == {1, 2}

NextStart ==
    \/ \E c \in Ctl, opts \in OptsMain :
          disk[opts.Root].st = "nodir" /\ New(c, opts, "ok")
    \/ \E c \in Ctl :
          disk[<<"run", "a">>].st = "full" /\ Load(c, <<"run", "a">>)
    \/ \E t \in StartCallers, c \in Ctl, ok \in BOOLEAN : CreateCall(t, c, ok)
    \/ \E t \in StartCallers, launch \in LaunchAnswers : CmdStart(t, launch)
    \/ \E t \in StartCallers : TimerFire(t)
    \/ \E t \in StartCallers : StartCommandReturn(t)
    \/ \E t \in StartCallers : CreateLock(t)
    \/ \E t \in StartCallers : CreateRegister(t)
    \/ \E t \in StartCallers : ProcConfirm(t)
    \/ \E t \in StartCallers, normal \in BOOLEAN : ProcExit(t, normal)
    \/ \E t \in StartCallers : checkExited(t)
    \/ \E t \in StartCallers, c \in Ctl : StartCall(t, c)
    \/ \E t \in StartCallers : getContainerInit(t)
    \/ \E t \in StartCallers, ok \in BOOLEAN : GoCmdStart(t, ok)
    \/ \E t \in StartCallers : GoSetProcess(t)
    \/ \E t \in StartCallers : GoWait(t)
    \/ \E t \in StartCallers : GoWaitReturn(t)
    \/ \E t \in StartCallers : GoSendErr(t)
    \/ \E t \in StartCallers : GoSendNil(t)
    \/ \E t \in StartCallers, ok \in BOOLEAN : CmdExit(t, ok)
    \/ \E t \in StartCallers : SelectErrC(t)
    \/ \E t \in StartCallers : SelectDone(t)
    \/ \E t \in StartCallers : CmdWait(t)
    \/ \E t \in StartCallers : CmdWaitReturn(t)
    \/ \E t \in StartCallers : RecvErrC(t)

\* the goroutine of Start launches the command it is to run (GoCmdStart) as
\* it takes its other steps
FairnessStart ==
    \A t \in StartCallers :
        /\ WF_vars(TimerFire(t))
        /\ WF_vars(StartCommandReturn(t))
        /\ WF_vars(CreateLock(t))
        /\ WF_vars(CreateRegister(t))
        /\ WF_vars(checkExited(t))
        /\ WF_vars(getContainerInit(t))
        /\ WF_vars(\E ok \in BOOLEAN : GoCmdStart(t, ok))
        /\ WF_vars(GoSetProcess(t))
        /\ WF_vars(GoWait(t))
        /\ WF_vars(GoWaitReturn(t))
        /\ WF_vars(GoSendErr(t))
        /\ WF_vars(GoSendNil(t))
        /\ WF_vars(SelectErrC(t) \/ SelectDone(t))
        /\ WF_vars(CmdWait(t))
        /\ WF_vars(CmdWaitReturn(t))
        /\ WF_vars(RecvErrC(t))

FairStartSpec == Init /\ [][NextStart]_vars /\ FairnessStart

-----------------------------------------------------------------------------
(* Shorthands of the properties.                                           *)

Returned(t, op) == thr[t].op = op /\ thr[t].pc = "returned"
HasInit(c) == "init" \in DOMAIN shims[c].processes
DoneFired(p) == procs[p].closes > 0

\* a step of caller t's Start, of its goroutine included
StartStep(t) ==
    \/ \E c \in Ctl : StartCall(t, c)
    \/ getContainerInit(t)
    \/ \E ok \in BOOLEAN : GoCmdStart(t, ok)
    \/ GoSetProcess(t)
    \/ GoWait(t)
    \/ GoWaitReturn(t)
    \/ GoSendErr(t)
    \/ GoSendNil(t)
    \/ SelectErrC(t)
    \/ SelectDone(t)
    \/ CmdWait(t)
    \/ CmdWaitReturn(t)
    \/ RecvErrC(t)

-----------------------------------------------------------------------------
(* C1.  When Start returns ErrShimExited (the init supervisor's done fired *)
(* with success = false before the start command was through), the start   *)
(* command's subprocess is not running: it was killed and waited for, in    *)
(* every interleaving of the goroutine with the caller.                     *)
(* The code violates it: while cmd.Process is still nil the caller skips   *)
(* Kill, its Wait returns at once, and the subprocess the goroutine         *)
(* launches is left running after Start has returned.                       *)

C1_NoSubprocessAfterShimExited ==
    \A t \in Threads :
        (Returned(t, "Start") /\ thr[t].res = "ErrShimExited")
            => cmds[t].os # "running"

-----------------------------------------------------------------------------
(* C2.  When Start returns while the start command has ended successfully  *)
(* and the done of the init supervisor has not fired, it returns nil; and   *)
(* no step of a Start changes a registry or touches a supervised process.   *)

C2_StartReturnsNil ==
    \A t \in Threads :
        (Returned(t, "Start") /\ thr[t].p # 0 /\ cmds[t].os = "exitedOk"
            /\ ~DoneFired(IF thr[t].p = 0 THEN t ELSE thr[t].p))
            => thr[t].res = "nil"

C2_StartFrame ==
    (\E t \in Threads : StartStep(t)) => UNCHANGED <<shims, procs, disk>>

C2_RuntimeWins == [](C2_StartReturnsNil) /\ [][C2_StartFrame]_vars

C2_Witness ==
    \E t \in Threads :
        /\ Returned(t, "Start") /\ thr[t].res = "nil" /\ thr[t].p # 0
        /\ cmds[t].os = "exitedOk"
        /\ procs[thr[t].p].closes = 0
        /\ shims[thr[t].c].processes["init"] = thr[t].p
        /\ procs[thr[t].p].os = "running"

-----------------------------------------------------------------------------
(* C3.  A Start on a Shim whose registry has no "init" returns              *)
(* errInitProcessNotExist and never builds the start command; the registry  *)
(* of a Shim that Load returned is empty, whatever was registered in the    *)
(* Shim that wrote the state.json.                                          *)

C3_StartWithoutInit ==
    /\ \A c \in Ctl : (shims[c].made /\ shims[c].procNil) => ~HasInit(c)
    /\ \A t \in Threads :
          /\ (thr[t].op = "Start" /\ thr[t].pc # "getInit" /\ ~HasInit(thr[t].c))
                => (thr[t].res = "errInitProcessNotExist" /\ ~cmds[t].made)
          /\ thr[t].res = "errInitProcessNotExist" => ~cmds[t].made
          /\ cmds[t].made => HasInit(thr[t].c)

C3_Witness ==
    \E t \in Threads, c, d \in Ctl :
        /\ shims[c].made /\ shims[c].procNil
        /\ Returned(t, "Start") /\ thr[t].c = c
        /\ thr[t].res = "errInitProcessNotExist"
        /\ shims[d].made /\ HasInit(d) /\ disk[shims[d].root].st = "full"

-----------------------------------------------------------------------------
(* C4.  The done channel of a supervisor is closed at most once and its     *)
(* watcher started at most once; a launch failure closes done and starts   *)
(* no watcher.                                                              *)

C4_DoneFiresOnce ==
    \A t \in Threads :
        /\ procs[t].closes <= 1
        /\ procs[t].watchers <= 1
        /\ (procs[t].watcher = "none") = (procs[t].watchers = 0)
        /\ thr[t].res \in {"notInstalled", "launchError"}
              => (procs[t].closes = 1 /\ procs[t].watchers = 0)
        /\ procs[t].watcher = "finished" => procs[t].closes = 1

C4_Witness ==
    \E t, u \in Threads :
        /\ procs[t].watcher = "finished" /\ procs[t].closes = 1
        /\ thr[u].op = "Start" /\ thr[u].p = t /\ thr[u].pc \in {"cmdWait", "recv"}

-----------------------------------------------------------------------------
(* C5.  MarshalJSON followed by UnmarshalJSON gives back the name, the     *)
(* bundle, the flag, the timeout and the runtime's name and arguments, and *)
(* encoding the Shim read back gives an equal record.                       *)
(* The code violates it: encoding/json replaces every byte of a string     *)
(* that is not valid UTF-8 by U+FFFD, so such a name does not come back.    *)

C5_RoundTripLossless ==
    fn.op = "RoundTrip" =>
        /\ ~fn.res.err
        /\ fn.res.dec.name = fn.arg.name
        /\ fn.res.dec.bundle = fn.arg.bundle
        /\ fn.res.dec.noPivotRoot = fn.arg.noPivotRoot
        /\ fn.res.dec.timeout = fn.arg.timeout
        /\ fn.res.dec.runtime.name = fn.arg.runtime.name
        /\ fn.res.dec.runtime.args = fn.arg.runtime.args
        /\ fn.res.enc2 = fn.res.enc

-----------------------------------------------------------------------------
(* C6.  A Create whose process was launched and never confirms the create  *)
(* does not wait for ever: it returns, with the timeout error only once    *)
(* the timer has fired, and the return leaves the process as it is; no      *)
(* step of the controller ever kills a supervised process.                  *)

C6_NoKill ==
    \A t \in Threads :
        /\ procs[t].os # "killed"
        /\ thr[t].res = "ErrTimeout"
              => procs[t].os \in {"running", "exitedOk", "exitedFail"}

C6_TimeoutStep ==
    \A t \in Threads :
        (thr[t].pc = "waitForCreate" /\ thr'[t].pc # "waitForCreate")
            => /\ procs'[t].os = procs[t].os
               /\ thr'[t].res = "ErrTimeout" => thr[t].timer
               /\ ~procs[t].created
                     => thr'[t].res \in {"ErrTimeout", "ErrEarlyExit"}
               /\ (~procs[t].created /\ procs[t].os = "running")
                     => (thr'[t].res = "ErrTimeout" /\ procs'[t].os = "running")

C6_CreateTimesOut ==
    /\ [](C6_NoKill)
    /\ [][C6_TimeoutStep]_vars
    /\ \A t \in Threads :
          (thr[t].pc = "waitForCreate") ~> (thr[t].pc # "waitForCreate")

C6_Witness ==
    \E t \in Threads :
        /\ Returned(t, "Create") /\ thr[t].res = "ErrTimeout"
        /\ procs[t].os = "running" /\ ~procs[t].created

-----------------------------------------------------------------------------
(* C7.  As claimed: once a registry maps "init" to a supervisor, no step   *)
(* changes the registry.  A second successful Create violates it.           *)

C7_InitImmutable ==
    [][\A c \in Ctl :
          HasInit(c) => shims'[c].processes = shims[c].processes]_vars

(* C7, amended.  Once a registry maps "init" to a supervisor, the entry is *)
(* never removed, and the only step that changes it is the registration of  *)
(* a later successful Create on the same Shim, which puts its own new       *)
(* supervisor there; no Start and no failing Create changes it.             *)

C7_OnlyCreateReplaces ==
    [][\A c \in Ctl :
          HasInit(c)
            => /\ "init" \in DOMAIN shims'[c].processes
               /\ shims'[c].processes # shims[c].processes
                    => \E t \in Threads :
                          /\ CreateRegister(t)
                          /\ thr[t].c = c
                          /\ thr'[t].res = "nil"
                          /\ shims'[c].processes["init"] = t]_vars

C7_Witness ==
    \E c \in Ctl, t, u \in Threads :
        /\ t # u
        /\ Returned(t, "Create") /\ thr[t].res = "nil" /\ thr[t].c = c
        /\ Returned(u, "Create") /\ thr[u].res = "nil" /\ thr[u].c = c
        /\ HasInit(c)

-----------------------------------------------------------------------------
(* C8.  New on a root that exists fails and leaves the disk as it is and   *)
(* hands out no Shim; when New has returned without error the state.json   *)
(* of its root holds the encoding of its Shim, and a Load of a root with a  *)
(* written state.json returns a Shim.                                       *)

\* a step that ends a call of New on a root that exists; a call that ends
\* as the call before it did changes nothing either
C8_FailedNewStep ==
    /\ (ret' # ret /\ ret'.op = "New" /\ disk[ret'.root].st # "nodir")
          => (ret'.err = "EEXIST" /\ disk' = disk /\ shims' = shims)
    /\ ret' = ret => (disk' = disk /\ shims' = shims)

C8_Persisted ==
    /\ (ret.op = "New" /\ ret.err = "nil")
          => /\ shims[ret.c].made /\ shims[ret.c].root = ret.root
             /\ disk[ret.root] = [st |-> "full", rec |-> MarshalJSON(shims[ret.c])]
    /\ \A c \in Ctl :
          (shims[c].made /\ ~shims[c].procNil) => disk[shims[c].root].st = "full"
    /\ (ret.op = "Load" /\ disk[ret.root].st = "full")
          => (ret.err = "nil" /\ shims[ret.c].made)
    /\ (ret.op = "Load" /\ ret.err = "nil")
          => MarshalJSON(shims[ret.c]) = disk[ret.root].rec

C8_NewAndDisk == [](C8_Persisted) /\ [][C8_FailedNewStep]_vars

C8_Witness ==
    /\ ret.op = "New" /\ ret.err = "EEXIST"
    /\ disk[ret.root].st = "full"
    /\ \E c, d \in Ctl :
          /\ shims[c].made /\ ~shims[c].procNil /\ shims[c].root = ret.root
          /\ shims[d].made /\ shims[d].procNil
          /\ MarshalJSON(shims[d]) = disk[ret.root].rec

-----------------------------------------------------------------------------
(* C9.  As claimed: getFifoPath returns the name, without error, exactly    *)
(* for the handles that are named pipes with a non-empty name, and          *)
(* ErrNotFifo for every other value.  A regular file with a name violates   *)
(* it.                                                                      *)

C9_OnlyFifosAccepted ==
    fn.op = "getFifoPath" =>
        IF fn.arg.isFile /\ fn.arg.name # <<>> /\ fn.arg.backing = "fifo"
        THEN fn.res = [path |-> fn.arg.name, err |-> "nil"]
        ELSE fn.res.err = "ErrNotFifo"

(* C9, amended.  getFifoPath returns ErrNotFifo for every value that is    *)
(* not an *os.File and for every *os.File with an empty name, and returns   *)
(* the name, without error, for every *os.File with a non-empty name,       *)
(* whether or not a named pipe is behind it.                                *)

C9_FilesWithNameAccepted ==
    fn.op = "getFifoPath" =>
        IF fn.arg.isFile /\ fn.arg.name # <<>>
        THEN fn.res = [path |-> fn.arg.name, err |-> "nil"]
        ELSE fn.res = [path |-> <<>>, err |-> "ErrNotFifo"]

C9_Witness ==
    /\ fn.op = "getFifoPath"
    /\ fn.arg.isFile /\ fn.arg.backing = "regular" /\ fn.arg.name # <<>>
    /\ fn.res.err = "nil"

-----------------------------------------------------------------------------
(* C10.  getRootIDs returns (0, 0) for a spec that declares no user        *)
(* namespace, whatever its mapping tables hold, and otherwise the host ids  *)
(* of container id 0, the uid through the UID table and the gid through the *)
(* GID table.                                                               *)

DeclaresUserns(s) ==
    ~s.isNil /\ \E i \in DOMAIN s.Namespaces : s.Namespaces[i] = "user"

C10_RootIDs ==
    fn.op = "getRootIDs" =>
        IF DeclaresUserns(fn.arg)
        THEN /\ fn.res[1] = hostIDFromMap(0, fn.arg.UIDMappings)
             /\ fn.res[2] = hostIDFromMap(0, fn.arg.GIDMappings)
        ELSE fn.res = <<0, 0>>

C10_Witness ==
    /\ fn.op = "getRootIDs"
    /\ DeclaresUserns(fn.arg)
    /\ fn.arg.Namespaces[1] # "user"
    /\ fn.res[1] # fn.res[2]
    /\ fn.res[1] # 0 /\ fn.res[2] # 0

-----------------------------------------------------------------------------
(* C11.  When the done of the init supervisor has fired with success =     *)
(* true, Start does not kill the start command and does not take the       *)
(* ErrShimExited path: it returns only once the command is through (ended,  *)
(* or failed to launch), and returns that command's result, nil for a       *)
(* success and the command's error for a failure.                           *)

\* the result of caller t's start command: "pending" until it is through
CmdResult(t) ==
    IF cmds[t].os = "exitedOk" THEN "nil"
    ELSE IF cmds[t].os \in {"exitedFail", "killed"} THEN "RuntimeCommandError"
    ELSE IF cmds[t].os = "none" /\ cmds[t].g \in {"sendErr", "sendNil", "done"}
         THEN "RuntimeCommandError"
    ELSE "pending"

C11_SuccessExitWaitsForCommand ==
    \A t \in Threads :
        (thr[t].op = "Start" /\ thr[t].p # 0
            /\ DoneFired(IF thr[t].p = 0 THEN t ELSE thr[t].p)
            /\ procs[IF thr[t].p = 0 THEN t ELSE thr[t].p].success)
            => /\ thr[t].pc \notin {"cmdWait", "cmdWaiting"}
               /\ cmds[t].os # "killed"
               /\ thr[t].res # "ErrShimExited"
               /\ thr[t].pc = "returned"
                     => (thr[t].res = CmdResult(t)
                           /\ thr[t].res \in {"nil", "RuntimeCommandError"})

\* a Start that took the done case with success = true while its command is
\* running: it is blocked in the receive from errC, the command not killed
C11_Witness ==
    \E t \in Threads :
        /\ thr[t].op = "Start" /\ thr[t].pc = "recv"
        /\ procs[thr[t].p].success /\ DoneFired(thr[t].p)
        /\ cmds[t].os = "running" /\ cmds[t].Process
        /\ cmds[t].errC = <<>>

-----------------------------------------------------------------------------
(* C12.  As claimed: the exit watcher of a supervisor is started when the  *)
(* launch has returned without error, before the wait for the create       *)
(* confirmation, so that it runs during the whole wait: while a Create is   *)
(* in waitForCreate the watcher of its supervisor has been started, and an  *)
(* exit of the process during the wait has its done fired by the time the   *)
(* wait reports it.                                                         *)
(* The code violates it: `go p.checkExited()` sits in a defer, which runs   *)
(* when startCommand returns, after waitForCreate; during the wait there is *)
(* no watcher.                                                              *)

C12_WatcherRunsDuringWait ==
    \A t \in Threads :
        thr[t].pc = "waitForCreate" => procs[t].watcher # "none"

-----------------------------------------------------------------------------
(* C13.  The lock of the registry is held only around the one access of    *)
(* the map: the caller holding s.pmu is at the lookup of getContainerInit   *)
(* or at the assignment of Create (or has panicked in that assignment), on  *)
(* the Shim it called; no caller holds a lock while it waits for the create *)
(* confirmation, in the select of Start, in the receive from errC or in     *)
(* cmd.Wait.  So whenever a lock is taken while another call is in one of   *)
(* those waits, it is not that call that holds it.                          *)

BlockingPcs == {"cmdStart", "waitForCreate", "select", "recv", "cmdWait", "cmdWaiting"}

C13_LockOnlyAroundMapAccess ==
    /\ \A c \in Ctl :
          pmu[c] # 0
            => /\ pmu[c] \in Threads
               /\ thr[pmu[c]].c = c
               /\ \/ thr[pmu[c]].pc \in {"getInit", "register"}
                  \/ thr[pmu[c]].res = "panic"
    /\ \A t \in Threads :
          thr[t].pc \in BlockingPcs \cup {"idle", "lock"}
            => \A c \in Ctl : pmu[c] # t

\* a caller takes the lock of a Shim while another caller's Create on the
\* same Shim is waiting for the create confirmation
C13_Witness ==
    \E t, u \in Threads, c \in Ctl :
        /\ t # u
        /\ thr[t].op = "Create" /\ thr[t].c = c /\ thr[t].pc = "waitForCreate"
        /\ pmu[c] = u /\ thr[u].pc \in {"getInit", "register"}

-----------------------------------------------------------------------------
(* C14.  Create changes the registry only when it succeeds.  The step by   *)
(* which a Create returns its supervisor sets "init" of the registry of its *)
(* Shim to that supervisor and adds no other key; every other step of a     *)
(* Create, the steps by which it returns an error included, leaves every    *)
(* registry as it is; and the supervisor of a Create that returned an error *)
(* is in no registry.                                                       *)

CreateErrors ==
    {"newProcessError", "notInstalled", "launchError", "ErrTimeout", "ErrEarlyExit"}

\* a step of caller t's Create
C14_CreateStep ==
    \A t \in Threads :
        (thr'[t] # thr[t] /\ thr'[t].op = "Create")
            => IF thr'[t].pc = "returned" /\ thr'[t].res = "nil"
               THEN /\ shims'[thr[t].c].processes["init"] = t
                    /\ DOMAIN shims'[thr[t].c].processes
                          = DOMAIN shims[thr[t].c].processes \cup {"init"}
                    /\ shims' = [shims EXCEPT ![thr[t].c].processes = SetInit(@, t)]
               ELSE shims' = shims

C14_NoFailedSupervisorRegistered ==
    /\ \A c \in Ctl : DOMAIN shims[c].processes \subseteq {"init"}
    /\ \A t \in Threads :
          (Returned(t, "Create") /\ thr[t].res \in CreateErrors)
            => \A c \in Ctl : HasInit(c) => shims[c].processes["init"] # t

C14_RegistryOnlyOnSuccess ==
    [](C14_NoFailedSupervisorRegistered) /\ [][C14_CreateStep]_vars

\* a Create has returned its supervisor, which "init" maps to, and a later
\* Create on the same Shim has failed in the handshake and left it there
C14_Witness ==
    \E t, u \in Threads, c \in Ctl :
        /\ Returned(t, "Create") /\ thr[t].res = "nil" /\ thr[t].c = c
        /\ Returned(u, "Create") /\ thr[u].c = c
        /\ thr[u].res \in {"ErrTimeout", "ErrEarlyExit"}
        /\ t < u
        /\ shims[c].processes["init"] = t

-----------------------------------------------------------------------------
(* C15.  As claimed: the select of Start looks at the command's result      *)
(* first.  When Start leaves the select while errC holds the nil of a       *)
(* command that has ended successfully, it leaves it by returning nil, the  *)
(* done of the init supervisor fired with success = false or not; so the    *)
(* step out of the select is a function of the state of the two signals.    *)
(* The code violates it: with both cases ready the select of Go takes       *)
(* either, and the done case leads to ErrShimExited.                        *)

C15_SelectStep ==
    \A t \in Threads :
        (thr[t].pc = "select" /\ thr'[t].pc # "select"
            /\ cmds[t].errC # <<>> /\ cmds[t].os = "exitedOk")
            => (thr'[t].pc = "returned" /\ thr'[t].res = "nil")

C15_CommandResultFirst == [][C15_SelectStep]_vars

-----------------------------------------------------------------------------
(* C16.  As claimed: hostIDFromMap returns HostID + (id - ContainerID) of   *)
(* the first entry whose range ContainerID .. ContainerID + Size - 1, taken *)
(* over the integers, holds id, and 0 when no entry does; an entry of size  *)
(* 0 matches no id, and an entry whose range runs past the largest id       *)
(* matches the ids from its ContainerID upward.                             *)
(* The code violates it: ContainerID + Size - 1 is computed in unsigned     *)
(* arithmetic and wraps around, for a size of 0 and for a range that runs   *)
(* past the largest id.                                                     *)

\* the mapping over the integers, without wrap-around
RECURSIVE HostIDOverIntegers(_, _)
HostIDOverIntegers(id, mp) ==
    IF mp = <<>> THEN 0
    ELSE LET m == Head(mp)
         IN  IF id >= m.ContainerID /\ id <= m.ContainerID + m.Size - 1
             THEN m.HostID + (id - m.ContainerID)
             ELSE HostIDOverIntegers(id, Tail(mp))

C16_HostIDOverIntegers ==
    fn.op = "hostIDFromMap" =>
        fn.res = HostIDOverIntegers(fn.arg.id, fn.arg.mp)

-----------------------------------------------------------------------------
(* C17.  As claimed: under fair scheduling a Start does not wait for ever   *)
(* on a dead shim.  A Start in its select with the done of the init         *)
(* supervisor fired and success = false eventually returns, even if its     *)
(* start command never ends by itself; and a Start whose start command is   *)
(* through eventually returns.                                              *)
(* The code violates the first: when the done case finds cmd.Process nil it *)
(* skips Kill, and if the goroutine assigns cmd.Process before the caller's *)
(* cmd.Wait(), that Wait waits for a command nobody kills.                  *)

C17_ReturnsOnDeadShim ==
    \A t \in Threads :
        (thr[t].op = "Start" /\ thr[t].pc = "select"
            /\ DoneFired(thr[t].p) /\ ~procs[thr[t].p].success)
          ~> (thr[t].pc = "returned")

C17_ReturnsWhenCommandEnds ==
    \A t \in Threads :
        (thr[t].op = "Start" /\ thr[t].pc \in {"select", "recv", "cmdWait", "cmdWaiting"}
            /\ CmdResult(t) # "pending")
          ~> (thr[t].pc = "returned")

C17_StartTerminates == C17_ReturnsOnDeadShim /\ C17_ReturnsWhenCommandEnds

-----------------------------------------------------------------------------
(* C18.  As claimed: the goroutine of a Start that has returned, whatever   *)
(* the path of the return, gets through its sends on errC once its command  *)
(* is through: it is never left blocked in a send.                          *)
(* The code violates it: after a failed command the goroutine sends the     *)
(* error and then nil on a channel of one slot; a Start that returned       *)
(* ErrShimExited has received nothing, so the second send blocks for ever.  *)

C18_GoroutineTerminates ==
    \A t \in Threads :
        (Returned(t, "Start") /\ cmds[t].g \in {"sendErr", "sendNil"})
          ~> (cmds[t].g = "done")

-----------------------------------------------------------------------------
(* C19.  As claimed: a Shim that Load returned has the path given to Load   *)
(* as its root and an initialized, empty registry; a Create on a Shim runs  *)
(* its process in the directory init of a root, and the assignment to the   *)
(* registry never fails.                                                    *)
(* The code violates it: Load decodes into a zero Shim, state.json holds no *)
(* root and UnmarshalJSON makes no map, so the root is "" and the registry  *)
(* nil: Create runs the process in the relative directory init and panics   *)
(* at s.processes["init"] = p.                                              *)

C19_LoadedShimUsable ==
    /\ (ret.op = "Load" /\ ret.err = "nil")
          => (shims[ret.c].root = ret.root /\ ~shims[ret.c].procNil)
    /\ \A t \in Threads :
          /\ thr[t].res # "panic"
          /\ procs[t].made
                => \E r \in Roots : procs[t].root = FilepathJoin(r, "init")

-----------------------------------------------------------------------------
(* C20.  As claimed: the Shim New returns carries the name, the runtime     *)
(* name and arguments, the timeout and the NoPivotRoot flag of its Opts,    *)
(* the state.json it writes reads back to the same values, and the Shim a   *)
(* Load of the root returns has the values of the Shim New returned.        *)
(* The code violates it: New never copies opts.NoPivotRoot into the Shim,   *)
(* so the flag is false in the Shim and in the state.json; and the encoder  *)
(* replaces bytes that are not valid UTF-8.                                 *)

\* a step by which New writes the state.json of root opts.Root and returns
C20_NewStep ==
    \A opts \in OptsStore :
        (disk[opts.Root].st = "nodir" /\ disk'[opts.Root].st = "full"
            /\ \E c \in Ctl : New(c, opts, "ok"))
          => LET s == shims'[ret'.c]
                 l == UnmarshalJSON(ZeroShim, disk'[opts.Root].rec).s
             IN  /\ s.name = opts.Name /\ l.name = opts.Name
                 /\ s.runtime.name = opts.RuntimeName
                 /\ l.runtime.name = opts.RuntimeName
                 /\ s.runtime.args = opts.RuntimeArgs
                 /\ l.runtime.args = opts.RuntimeArgs
                 /\ s.timeout = opts.Timeout /\ l.timeout = opts.Timeout
                 /\ s.noPivotRoot = opts.NoPivotRoot
                 /\ l.noPivotRoot = opts.NoPivotRoot

C20_LoadedEqualsNew ==
    (ret.op = "Load" /\ ret.err = "nil")
        => \A d \in Ctl :
              (shims[d].made /\ ~shims[d].procNil /\ shims[d].root = ret.root)
                => /\ shims[ret.c].name = shims[d].name
                   /\ shims[ret.c].runtime = shims[d].runtime
                   /\ shims[ret.c].timeout = shims[d].timeout
                   /\ shims[ret.c].noPivotRoot = shims[d].noPivotRoot

C20_OptionsPreserved == [](C20_LoadedEqualsNew) /\ [][C20_NewStep]_vars

=============================================================================
